---- MODULE Spec2Model ----
(***************************************************************************)
(* Model of aws-sqs-exporter: the exporter (package sqs) and its main.     *)
(*                                                                         *)
(* Strings are sequences of one-character strings, so that the string      *)
(* functions of the program (normalizeTag, queueNameFromUrl, ParseInt) are *)
(* computed as the code computes them.  A character outside ASCII is       *)
(* written by its code point ("U+00E9").                                   *)
(***************************************************************************)
EXTENDS Integers, Sequences, FiniteSets, TLC

\* ---------------------------------------------------------------- bounds

\* Longest string handed to normalizeTag in SpecNorm.
MaxTagLen == 3

\* Number of refresh cycles (the startup one included) a behaviour runs.
MaxCycles == 2

\* ------------------------------------------------------------ characters

LowerLetters == {"a", "b", "e", "k", "m", "n", "o", "q", "r", "s", "t", "u", "w", "x"}
UpperLetters == {"A", "E", "K", "O", "T"}
Digits == {"0", "1", "2", "3", "4", "5", "6", "7", "8", "9"}

\* Outside ASCII the model has U+00E9 e-acute, U+00C9 E-acute, U+212A KELVIN
\* SIGN and U+0130 I with dot above.

\* The characters the regular expression's class [A-Za-z\d] holds.
IsWordChar(c) == c \in LowerLetters \cup UpperLetters \cup Digits

\* unicode.ToLower of one rune, as strings.ToLower applies it to every rune.
ToLowerRune(c) ==
  CASE c = "A" -> "a"
    [] c = "E" -> "e"
    [] c = "K" -> "k"
    [] c = "O" -> "o"
    [] c = "T" -> "t"
    [] c = "U+00C9" -> "U+00E9"
    [] c = "U+212A" -> "k"
    [] c = "U+0130" -> "i"
    [] OTHER -> c

\* strings.ToLower
ToLower(s) == [i \in 1..Len(s) |-> ToLowerRune(s[i])]

\* The rest of s after its leading run of characters outside [A-Za-z\d].
RECURSIVE SkipNonWord(_)
SkipNonWord(s) ==
  IF s = <<>> \/ IsWordChar(Head(s)) THEN s ELSE SkipNonWord(Tail(s))

\* wordsRe.ReplaceAllString(s, "_") for wordsRe = [^A-Za-z\d]+ : every
\* leftmost-longest match, a maximal run, becomes one underscore.
RECURSIVE ReplaceAllNonWord(_)
ReplaceAllNonWord(s) ==
  IF s = <<>> THEN <<>>
  ELSE IF IsWordChar(Head(s))
       THEN <<Head(s)>> \o ReplaceAllNonWord(Tail(s))
       ELSE <<"_">> \o ReplaceAllNonWord(SkipNonWord(Tail(s)))

normalizeTag_KeepCase(name) == ReplaceAllNonWord(name)

normalizeTag_LeadingUnderscore(name) ==
  <<"_">> \o ReplaceAllNonWord(ToLower(name))

normalizeTag(name) == ReplaceAllNonWord(ToLower(name))

\* strings.LastIndex(s, "/"), 0-based, -1 when there is none.
LastIndexSlash(s) ==
  LET at == {i \in 1..Len(s) : s[i] = "/"}
  IN  IF at = {} THEN -1 ELSE (CHOOSE i \in at : \A j \in at : j <= i) - 1

queueNameFromUrl(url) == SubSeq(url, LastIndexSlash(url) + 2, Len(url))

DigitValue(c) ==
  CASE c = "0" -> 0 [] c = "1" -> 1 [] c = "2" -> 2 [] c = "3" -> 3
    [] c = "4" -> 4 [] c = "5" -> 5 [] c = "6" -> 6 [] c = "7" -> 7
    [] c = "8" -> 8 [] c = "9" -> 9

RECURSIVE DigitsValue(_, _)
DigitsValue(s, acc) ==
  IF s = <<>> THEN acc ELSE DigitsValue(Tail(s), 10 * acc + DigitValue(Head(s)))

\* strconv.ParseInt(s, 10, 64): an optional sign, then one or more digits.
\* The strings of the model are far shorter than an int64 overflow needs.
ParseInt(s) ==
  LET signed == s # <<>> /\ Head(s) \in {"+", "-"}
      body   == IF signed THEN Tail(s) ELSE s
      ok     == body # <<>> /\ \A i \in 1..Len(body) : body[i] \in Digits
  IN  IF ~ok THEN [ok |-> FALSE, val |-> 0]
      ELSE [ok |-> TRUE,
            val |-> IF signed /\ Head(s) = "-"
                    THEN 0 - DigitsValue(body, 0) ELSE DigitsValue(body, 0)]

\* ------------------------------------------------------ values and inputs

\* The label every gauge carries besides the exported tags (part_000:66).
QueueNameLabel == <<"q", "u", "e", "u", "e", "_", "n", "a", "m", "e">>

TagOwner == <<"O", "w", "n", "e", "r">>
TagADotB == <<"a", ".", "b">>
TagASlashB == <<"a", "/", "b">>

TagOwnerLower == <<"o", "w", "n", "e", "r">>
TagQueueDotName == <<"q", "u", "e", "u", "e", ".", "n", "a", "m", "e">>

\* The lists of tag names the -exported-tags flag is given in the model:
\* "", "Owner", "a.b,a/b", "Owner,owner", "queue.name" and "Owner,".
TagConfigs ==
  {<<>>, <<TagOwner>>, <<TagADotB, TagASlashB>>, <<TagOwner, TagOwnerLower>>,
   <<TagQueueDotName>>, <<TagOwner, <<>>>>}

UrlA == <<"u", "/", "q", "a">>
UrlB == <<"u", "/", "q", "b">>
Urls == {UrlA, UrlB}

\* A nil error, and an error of remote call or parse `op` about `what`.
NoErr == [op |-> "nil", what |-> <<>>]
Err(op, what) == [op |-> op, what |-> what]

\* What ListQueues answers: an error, or the queue URLs of the account.
ListQueuesResponses ==
  {[err |-> TRUE, QueueUrls |-> <<>>]}
    \cup {[err |-> FALSE, QueueUrls |-> u] :
            u \in {<<>>, <<UrlA>>, <<UrlB>>, <<UrlA, UrlB>>}}

NoTags == [t \in {} |-> <<>>]

\* The tag mappings a queue may carry: queue a is tagged at times, queue b never.
TagMaps(url) == IF url = UrlA THEN {NoTags, TagOwner :> <<"x">>} ELSE {NoTags}

\* What ListQueueTags answers for one queue: an error, or its tag mapping.
ListQueueTagsResponses(url) ==
  {[err |-> TRUE, Tags |-> NoTags]}
    \cup {[err |-> FALSE, Tags |-> m] : m \in TagMaps(url)}

\* One answer of ListQueueTags for every queue.
AllListQueueTagsResponses ==
  {r \in [Urls -> UNION {ListQueueTagsResponses(u) : u \in Urls}] :
     \A u \in Urls : r[u] \in ListQueueTagsResponses(u)}

AttrDepth == "ApproximateNumberOfMessages"
AttrNotVisible == "ApproximateNumberOfMessagesNotVisible"

\* The attribute maps a response may carry: both attributes as numbers, one
\* of the two malformed, or one of the two missing.
AttributeMaps ==
  {(AttrDepth :> d) @@ (AttrNotVisible :> f) :
     <<d, f>> \in {<<<<"0">>, <<"1">>>>, <<<<"2">>, <<"1">>>>,
                   <<<<"x">>, <<"1">>>>, <<<<"2">>, <<"x">>>>}}
    \cup {AttrNotVisible :> <<"1">>, AttrDepth :> <<"2">>}

\* What GetQueueAttributes answers: an error, or the attributes it found.
GetQueueAttributesResponses ==
  {[err |-> TRUE, Attributes |-> NoTags]}
    \cup {[err |-> FALSE, Attributes |-> m] : m \in AttributeMaps}

\* What GetMetricStatistics answers: an error, or a Datapoints slice that is
\* nil, empty, or holds the one bucket; Maximum is a float64, kept here in
\* tenths of a second.
GetMetricStatisticsResponses ==
  {[err |-> TRUE, isNil |-> TRUE, Datapoints |-> <<>>],
   [err |-> FALSE, isNil |-> TRUE, Datapoints |-> <<>>],
   [err |-> FALSE, isNil |-> FALSE, Datapoints |-> <<>>],
   [err |-> FALSE, isNil |-> FALSE, Datapoints |-> <<[MaximumTenths |-> 57]>>]}

\* int64(f) of a non-negative float64 f given in tenths: truncation.
Int64OfTenths(t) == t \div 10

\* Go's m[k] on a map[string]string: the zero value "" for a missing key.
MapIndex_Placeholder(m, k) == IF k \in DOMAIN m THEN m[k] ELSE <<"n">>

MapIndex(m, k) == IF k \in DOMAIN m THEN m[k] ELSE <<>>

\* Go's m[k] = v
MapPut(m, k, v) == (k :> v) @@ m

\* ------------------------------------------------------------ the exporter

createQueueTag(original) ==
  [Original |-> original, Normalized |-> normalizeTag(original)]

\* NewExporter's two slices: exportedQueueTags, and the gauges' label names.
ExportedQueueTags(exportedTagsList) ==
  [i \in 1..Len(exportedTagsList) |-> createQueueTag(exportedTagsList[i])]

GaugeLabelNames(exportedTagsList) ==
  <<QueueNameLabel>>
    \o [i \in 1..Len(exportedTagsList) |->
          createQueueTag(exportedTagsList[i]).Normalized]

\* registry.MustRegister panics on a descriptor NewGaugeVec could not build:
\* a label name that is empty, starts with a digit or with two underscores,
\* or occurs twice.
ValidLabelName(n) ==
  /\ n # <<>>
  /\ n[1] \notin Digits
  /\ ~(Len(n) >= 2 /\ n[1] = "_" /\ n[2] = "_")

MustRegisterPanics(names) ==
  \/ \E i \in 1..Len(names) : ~ValidLabelName(names[i])
  \/ \E i, j \in 1..Len(names) : i # j /\ names[i] = names[j]

\* A *QueueMetric is a sequence: <<>> is nil, <<m>> points to m.
QueueMetric(name, tags, messages, age, inFlight) ==
  [QueueName |-> name, Tags |-> tags, Messages |-> messages,
   MessagesInFlight |-> inFlight, AgeOfOldestMessageSeconds |-> age,
   MessagesTotal |-> 0]

sqsQueue(url, tags) == [Name |-> queueNameFromUrl(url), Url |-> url, Tags |-> tags]

\* One ListQueueTags call as the remote side saw it: the queue and whether the
\* call failed.
TagCall(url, failed) == [url |-> url, err |-> failed]

\* The loop of listQueues over the URLs from position i on; tagResp[u] is what
\* ListQueueTags answers for u.  calls are the ListQueueTags calls made.
RECURSIVE listQueuesLoop_SkipFailed(_, _, _, _, _, _)
listQueuesLoop_SkipFailed(urls, i, includeTags, tagResp, queues, calls) ==
  IF i > Len(urls) THEN [err |-> NoErr, isNil |-> FALSE, queues |-> queues, tagCalls |-> calls]
  ELSE IF ~includeTags
       THEN listQueuesLoop_SkipFailed(urls, i + 1, includeTags, tagResp,
                           Append(queues, sqsQueue(urls[i], NoTags)), calls)
       ELSE IF tagResp[urls[i]].err
            THEN listQueuesLoop_SkipFailed(urls, i + 1, includeTags, tagResp, queues,
                                           Append(calls, TagCall(urls[i], TRUE)))
            ELSE listQueuesLoop_SkipFailed(urls, i + 1, includeTags, tagResp,
                                Append(queues, sqsQueue(urls[i], tagResp[urls[i]].Tags)),
                                Append(calls, TagCall(urls[i], FALSE)))

RECURSIVE listQueuesLoop(_, _, _, _, _, _)
listQueuesLoop(urls, i, includeTags, tagResp, queues, calls) ==
  IF i > Len(urls) THEN [err |-> NoErr, isNil |-> FALSE, queues |-> queues, tagCalls |-> calls]
  ELSE IF ~includeTags
       THEN listQueuesLoop(urls, i + 1, includeTags, tagResp,
                           Append(queues, sqsQueue(urls[i], NoTags)), calls)
       ELSE IF tagResp[urls[i]].err
            THEN [err |-> Err("ListQueueTags", urls[i]), isNil |-> TRUE,
                  queues |-> <<>>, tagCalls |-> Append(calls, TagCall(urls[i], TRUE))]
            ELSE listQueuesLoop(urls, i + 1, includeTags, tagResp,
                                Append(queues, sqsQueue(urls[i], tagResp[urls[i]].Tags)),
                                Append(calls, TagCall(urls[i], FALSE)))

listQueues(includeTags, listResp, tagResp) ==
  IF listResp.err
  THEN [err |-> Err("ListQueues", <<>>), isNil |-> TRUE, queues |-> <<>>, tagCalls |-> <<>>]
  ELSE listQueuesLoop(listResp.QueueUrls, 1, includeTags, tagResp, <<>>, <<>>)

\* QueuesMetrics' request to listQueues: tags are fetched only when some tag is
\* exported.
IncludeTags_Always(exportedTags) == TRUE

IncludeTags(exportedTags) == Len(exportedTags) > 0

\* kind is "ok", "err" or "panic" (index out of range on an empty slice).
QueueAgeOfOldestMessage(queueName, statsResp) ==
  IF statsResp.err
  THEN [kind |-> "err", age |-> 0, err |-> Err("GetMetricStatistics", queueName)]
  ELSE IF ~statsResp.isNil
       THEN IF statsResp.Datapoints = <<>>
            THEN [kind |-> "panic", age |-> 0, err |-> NoErr]
            ELSE [kind |-> "ok",
                  age |-> Int64OfTenths(statsResp.Datapoints[1].MaximumTenths),
                  err |-> NoErr]
       ELSE [kind |-> "ok", age |-> 0, err |-> NoErr]

FetchResult(kind, info, err, statsCalls) ==
  [kind |-> kind, info |-> info, err |-> err, statsCalls |-> statsCalls]

\* Whether fetchQueuesMetrics goes on to the age lookup, given the depth parsed.
AgeLookupWanted_Always(messages) == TRUE

AgeLookupWanted(messages) == messages > 0

\* kind is "ok", "err" or "panic" (nil pointer dereference on an attribute the
\* response lacks, or the panic of QueueAgeOfOldestMessage); statsCalls counts
\* the GetMetricStatistics calls made.
fetchQueuesMetrics(queue, attrResp, statsResp) ==
  IF attrResp.err
  THEN FetchResult("err", <<>>, Err("GetQueueAttributes", queue.Url), 0)
  ELSE IF AttrDepth \notin DOMAIN attrResp.Attributes
  THEN FetchResult("panic", <<>>, NoErr, 0)
  ELSE LET messages == ParseInt(attrResp.Attributes[AttrDepth]) IN
  IF ~messages.ok
  THEN FetchResult("err", <<>>, Err("ParseInt", attrResp.Attributes[AttrDepth]), 0)
  ELSE IF AttrNotVisible \notin DOMAIN attrResp.Attributes
  THEN FetchResult("panic", <<>>, NoErr, 0)
  ELSE LET messagesInFlight == ParseInt(attrResp.Attributes[AttrNotVisible]) IN
  IF ~messagesInFlight.ok
  THEN FetchResult("err", <<>>, Err("ParseInt", attrResp.Attributes[AttrNotVisible]), 0)
  ELSE IF AgeLookupWanted(messages.val)
  THEN LET a == QueueAgeOfOldestMessage(queue.Name, statsResp) IN
       IF a.kind # "ok"
       THEN FetchResult(a.kind, <<>>, a.err, 1)
       ELSE FetchResult("ok",
              <<QueueMetric(queue.Name, queue.Tags, messages.val, a.age,
                            messagesInFlight.val)>>, NoErr, 1)
  ELSE FetchResult("ok",
         <<QueueMetric(queue.Name, queue.Tags, messages.val, 0,
                       messagesInFlight.val)>>, NoErr, 0)

\* The labels Sync builds for one metric: a Go map, a later key overwrites.
RECURSIVE SyncLabelsLoop(_, _, _, _)
SyncLabelsLoop(labels, metric, tags, i) ==
  IF i > Len(tags) THEN labels
  ELSE SyncLabelsLoop(
         MapPut(labels, tags[i].Normalized, MapIndex(metric.Tags, tags[i].Original)),
         metric, tags, i + 1)

SyncLabels(metric, tags) ==
  SyncLabelsLoop(QueueNameLabel :> metric.QueueName, metric, tags, 1)

\* GaugeVec.With panics unless the labels are exactly the registered names.
WithPanics(labels, names) ==
  \/ Cardinality(DOMAIN labels) # Len(names)
  \/ \E i \in 1..Len(names) : names[i] \notin DOMAIN labels

\* The value Sync sets on queueMessageTotalsGauge.
SyncTotal_Stored(metric) == metric.MessagesTotal

SyncTotal(metric) == metric.Messages + metric.MessagesInFlight

\* The loop of Sync over the metrics from position i on; g holds the four
\* gauges' series (labels to value) and the labels written so far.
RECURSIVE SyncLoop(_, _, _, _, _)
SyncLoop(g, metrics, tags, names, i) ==
  IF i > Len(metrics) THEN g
  ELSE LET metric == metrics[i]
           labels == SyncLabels(metric, tags)
       IN  IF WithPanics(labels, names)
           THEN [g EXCEPT !.panicked = TRUE]
           ELSE SyncLoop(
                  [panicked |-> FALSE,
                   messages |-> MapPut(g.messages, labels, metric.Messages),
                   age |-> MapPut(g.age, labels, metric.AgeOfOldestMessageSeconds),
                   inFlight |-> MapPut(g.inFlight, labels, metric.MessagesInFlight),
                   total |-> MapPut(g.total, labels, SyncTotal(metric)),
                   written |-> g.written \cup {labels}],
                  metrics, tags, names, i + 1)

\* ------------------------------------------------------------------ state

VARIABLES
  pc,                \* where main is: "NewExporter", "Sync", "InSync" (inside
                     \* the startup Sync), "ListenAndServe",
                     \* "serving" (server up, ticker loop waiting), "crashed"
  crash,             \* what ended the process, "none" while it runs
  serving,           \* the metrics endpoint answers
  exportedTagsList,  \* main's exportedTagsList, from the flag
  exportedTags,      \* Exporter.exportedTags
  labelNames,        \* the label names the four gauges are registered with
  queueMessagesGauge,
  queueAgeOfOldestMessageGauge,
  queueMessagesInFlightGauge,
  queueMessageTotalsGauge,
  cycles,            \* Sync calls started so far
  sync,              \* "idle", or "fanout" between the launch and the join
  queues,            \* QueuesMetrics' queues
  task,              \* the goroutine of each queue
  results,           \* the results channel's buffer
  errors,            \* the errors channel's buffer
  wg,                \* the WaitGroup's counter
  ret,               \* how the last QueuesMetrics call ended
  written,           \* the labels Sync set values under in the last cycle
  queueNames,        \* what ListQueues answered in the last cycle
  tagCalls,          \* the ListQueueTags calls of the last cycle
  tickPending,       \* ticker.C, a channel of capacity 1, holds a tick
  syncsRunning,      \* Sync calls begun and not ended
  normName,          \* SpecNorm: the argument of normalizeTag
  normResult         \* SpecNorm: what successive normalizeTag calls returned

gauges ==
  <<queueMessagesGauge, queueAgeOfOldestMessageGauge,
    queueMessagesInFlightGauge, queueMessageTotalsGauge>>

collect == <<queues, task, results, errors, wg, queueNames, tagCalls>>

loop == <<tickPending, syncsRunning>>

norm == <<normName, normResult>>

vars ==
  <<pc, crash, serving, exportedTagsList, exportedTags, labelNames, gauges,
    cycles, sync, collect, ret, written, loop, norm>>

NoSeries == [l \in {} |-> 0]

\* How a QueuesMetrics call ended: the slice it returned (nil or not, and its
\* elements) and the error.
Ret(state, isNil, metrics, err) ==
  [state |-> state, isNil |-> isNil, metrics |-> metrics, err |-> err]

InitWith(configs, names) ==
  /\ pc = "NewExporter"
  /\ crash = "none"
  /\ serving = FALSE
  /\ exportedTagsList \in configs
  /\ exportedTags = <<>>
  /\ labelNames = <<>>
  /\ queueMessagesGauge = NoSeries
  /\ queueAgeOfOldestMessageGauge = NoSeries
  /\ queueMessagesInFlightGauge = NoSeries
  /\ queueMessageTotalsGauge = NoSeries
  /\ cycles = 0
  /\ sync = "idle"
  /\ queues = <<>>
  /\ task = <<>>
  /\ results = <<>>
  /\ errors = <<>>
  /\ wg = 0
  /\ ret = Ret("none", TRUE, <<>>, NoErr)
  /\ written = {}
  /\ queueNames = [err |-> FALSE, QueueUrls |-> <<>>]
  /\ tagCalls = <<>>
  /\ tickPending = FALSE
  /\ syncsRunning = 0
  /\ normName \in names
  /\ normResult = <<>>

Init == InitWith(TagConfigs, {<<>>})

\* ---------------------------------------------------------------- actions

\* main, lines 87-92: NewExporter builds and registers the gauges.
MainNewExporter ==
  /\ pc = "NewExporter"
  /\ exportedTags' = ExportedQueueTags(exportedTagsList)
  /\ labelNames' = GaugeLabelNames(exportedTagsList)
  /\ IF MustRegisterPanics(GaugeLabelNames(exportedTagsList))
     THEN pc' = "crashed" /\ crash' = "MustRegister"
     ELSE pc' = "Sync" /\ crash' = crash
  /\ UNCHANGED <<serving, exportedTagsList, gauges, cycles, sync, collect, ret,
                 written, loop, norm>>

\* The process dies of a panic no one recovers.
Panic(why) ==
  /\ pc' = "crashed"
  /\ crash' = why
  /\ serving' = FALSE

\* Sync returns err to main: the startup call panics on it, the ticker loop
\* logs it.  Sync itself touches no gauge on this path.
SyncReturnsErr_Reset(err) ==
  /\ ret' = Ret("returned", TRUE, <<>>, err)
  /\ IF pc \in {"Sync", "InSync"}
     THEN Panic("panic(err)")
     ELSE UNCHANGED <<pc, crash, serving>>
  /\ queueMessagesGauge' = NoSeries
  /\ queueAgeOfOldestMessageGauge' = NoSeries
  /\ queueMessagesInFlightGauge' = NoSeries
  /\ queueMessageTotalsGauge' = NoSeries
  /\ written' = {}

SyncReturnsErr(err) ==
  /\ ret' = Ret("returned", TRUE, <<>>, err)
  /\ IF pc \in {"Sync", "InSync"}
     THEN Panic("panic(err)")
     ELSE UNCHANGED <<pc, crash, serving>>
  /\ UNCHANGED gauges
  /\ written' = {}

NewTask == [pc |-> "fetch", attr |-> <<>>, stats |-> <<>>, info |-> <<>>, err |-> NoErr]

\* Sync calls QueuesMetrics, which runs listQueues and, unless that failed,
\* makes the channels and launches one goroutine per queue.
SyncBegin(startup) ==
  /\ cycles < MaxCycles
  /\ cycles' = cycles + 1
  /\ \E listResp \in ListQueuesResponses, tagResp \in AllListQueueTagsResponses :
       LET r == listQueues(IncludeTags(exportedTags), listResp, tagResp) IN
       /\ queueNames' = listResp
       /\ tagCalls' = r.tagCalls
       /\ results' = <<>>
       /\ errors' = <<>>
       /\ IF r.err # NoErr
          THEN /\ SyncReturnsErr(r.err)
               /\ queues' = <<>>
               /\ task' = <<>>
               /\ wg' = 0
               /\ sync' = "idle"
               /\ syncsRunning' = syncsRunning
          ELSE /\ queues' = r.queues
               /\ task' = [i \in 1..Len(r.queues) |-> NewTask]
               /\ wg' = Len(r.queues)
               /\ sync' = "fanout"
               /\ syncsRunning' = syncsRunning + 1
               /\ ret' = Ret("running", TRUE, <<>>, NoErr)
               /\ written' = {}
               /\ pc' = IF startup THEN "InSync" ELSE pc
               /\ UNCHANGED <<crash, serving, gauges>>
  /\ UNCHANGED <<exportedTagsList, exportedTags, labelNames, norm>>

\* main, line 97: the startup Sync.
MainSync == pc = "Sync" /\ tickPending' = tickPending /\ SyncBegin(TRUE)

\* time.NewTicker, line 94: the ticker sends on ticker.C every interval and
\* drops the tick when the channel still holds one.  Ticks are followed as
\* long as a further cycle is.
TickerFires ==
  /\ pc \in {"Sync", "InSync", "ListenAndServe", "serving"}
  /\ ~tickPending
  /\ cycles < MaxCycles
  /\ tickPending' = TRUE
  /\ UNCHANGED <<pc, crash, serving, exportedTagsList, exportedTags, labelNames,
                 gauges, cycles, sync, collect, ret, written, syncsRunning, norm>>

\* main, line 103: the ticker goroutine is launched after the startup Sync
\* has returned.
LoopRunning_BeforeStartup == pc \in {"Sync", "InSync", "serving"}

LoopRunning == pc = "serving"

\* The ticker goroutine is at its select, not inside a Sync call it made.
LoopAtSelect == sync = "idle"

\* main, lines 109-112: the ticker loop receives a tick and calls Sync.
Tick ==
  /\ LoopRunning
  /\ LoopAtSelect
  /\ tickPending
  /\ tickPending' = FALSE
  /\ SyncBegin(FALSE)

\* The queue the goroutine launched i-th works on: the argument it was given.
TaskQueue_Captured(i) == queues[Len(queues)]

TaskQueue(i) == queues[i]

\* The capacity of the results channel and of the errors channel.
ChanCap_Halved == Len(queues) \div 2

ChanCap == Len(queues)

\* wg.Wait() returns when every goroutine has called wg.Done().
WaitReturns_OnFirstError == wg = 0 \/ errors # <<>>

WaitReturns == wg = 0

\* A goroutine runs fetchQueuesMetrics for its queue.
TaskFetch(i) ==
  /\ sync = "fanout"
  /\ pc # "crashed"
  /\ task[i].pc = "fetch"
  /\ \E attrResp \in GetQueueAttributesResponses,
        statsResp \in GetMetricStatisticsResponses :
       LET r == fetchQueuesMetrics(TaskQueue(i), attrResp, statsResp)
           t == [pc |-> CASE r.kind = "panic" -> "panicked"
                          [] r.kind = "err" -> "sendErr"
                          [] OTHER -> "sendRes",
                 attr |-> <<attrResp>>,
                 stats |-> IF r.statsCalls = 1 THEN <<statsResp>> ELSE <<>>,
                 info |-> r.info,
                 err |-> r.err]
       IN  /\ task' = [task EXCEPT ![i] = t]
           /\ IF r.kind = "panic"
              THEN /\ Panic(IF r.statsCalls = 1 THEN "index out of range"
                                                ELSE "nil attribute")
                   /\ ret' = Ret("panicked", TRUE, <<>>, NoErr)
              ELSE UNCHANGED <<pc, crash, serving, ret>>
  /\ UNCHANGED <<exportedTagsList, exportedTags, labelNames, gauges, cycles, sync,
                 queues, results, errors, wg, queueNames, tagCalls, written,
                 loop, norm>>

\* errors <- err
TaskSendErr(i) ==
  /\ sync = "fanout"
  /\ pc # "crashed"
  /\ task[i].pc = "sendErr"
  /\ Len(errors) < ChanCap
  /\ errors' = Append(errors, task[i].err)
  /\ task' = [task EXCEPT ![i].pc = "sendRes"]
  /\ UNCHANGED <<pc, crash, serving, exportedTagsList, exportedTags, labelNames,
                 gauges, cycles, sync, queues, results, wg, queueNames, tagCalls,
                 ret, written, loop, norm>>

\* results <- info, then the deferred wg.Done()
TaskSendRes(i) ==
  /\ sync = "fanout"
  /\ pc # "crashed"
  /\ task[i].pc = "sendRes"
  /\ Len(results) < ChanCap
  /\ results' = Append(results, task[i].info)
  /\ wg' = wg - 1
  /\ task' = [task EXCEPT ![i].pc = "done"]
  /\ UNCHANGED <<pc, crash, serving, exportedTagsList, exportedTags, labelNames,
                 gauges, cycles, sync, queues, errors, queueNames, tagCalls, ret,
                 written, loop, norm>>

\* wg.Wait() returns: QueuesMetrics drains results (dereferencing each entry),
\* then errors, and returns; on success Sync sets the gauges.  The model
\* keeps the channels' content as the call found it.
Join ==
  /\ sync = "fanout"
  /\ pc # "crashed"
  /\ WaitReturns
  /\ IF \E k \in 1..Len(results) : results[k] = <<>>
     THEN /\ Panic("nil dereference")
          /\ ret' = Ret("panicked", TRUE, <<>>, NoErr)
          /\ UNCHANGED <<gauges, written, sync, syncsRunning>>
     ELSE IF errors # <<>>
     THEN /\ SyncReturnsErr(Head(errors))
          /\ sync' = "idle"
          /\ syncsRunning' = syncsRunning - 1
     ELSE LET metrics == [k \in 1..Len(results) |-> results[k][1]]
              g == SyncLoop([panicked |-> FALSE,
                             messages |-> queueMessagesGauge,
                             age |-> queueAgeOfOldestMessageGauge,
                             inFlight |-> queueMessagesInFlightGauge,
                             total |-> queueMessageTotalsGauge,
                             written |-> {}],
                            metrics, exportedTags, labelNames, 1)
          IN  /\ ret' = Ret("returned", FALSE, metrics, NoErr)
              /\ sync' = "idle"
              /\ syncsRunning' = syncsRunning - 1
              /\ queueMessagesGauge' = g.messages
              /\ queueAgeOfOldestMessageGauge' = g.age
              /\ queueMessagesInFlightGauge' = g.inFlight
              /\ queueMessageTotalsGauge' = g.total
              /\ written' = g.written
              /\ IF g.panicked
                 THEN Panic("GaugeVec.With")
                 ELSE /\ pc' = IF pc = "InSync" THEN "ListenAndServe" ELSE pc
                      /\ UNCHANGED <<crash, serving>>
  /\ UNCHANGED <<exportedTagsList, exportedTags, labelNames, cycles, collect,
                 tickPending, norm>>

\* main, lines 103-126: the ticker goroutine starts and the server listens,
\* or ListenAndServe fails and main panics.
MainListenAndServe ==
  /\ pc = "ListenAndServe"
  /\ \/ pc' = "serving" /\ serving' = TRUE /\ crash' = crash
     \/ Panic("ListenAndServe")
  /\ UNCHANGED <<exportedTagsList, exportedTags, labelNames, gauges, cycles, sync,
                 collect, ret, written, loop, norm>>

Next ==
  \/ MainNewExporter
  \/ MainSync
  \/ TickerFires
  \/ Tick
  \/ \E i \in DOMAIN task : TaskFetch(i)
  \/ \E i \in DOMAIN task : TaskSendErr(i)
  \/ \E i \in DOMAIN task : TaskSendRes(i)
  \/ Join
  \/ MainListenAndServe

Spec == Init /\ [][Next]_vars

\* ------------------------------------------------ normalizeTag on its own

NormAlphabet == {"a", "T", "1", ".", "_", "U+00E9", "U+212A"}

\* The names of Test_normalizeTag: "test", "TEst", "test.test", "test/test".
TestNames ==
  {<<"t", "e", "s", "t">>, <<"T", "E", "s", "t">>,
   <<"t", "e", "s", "t", ".", "t", "e", "s", "t">>,
   <<"t", "e", "s", "t", "/", "t", "e", "s", "t">>}

NormNames == TestNames \cup UNION {[1..n -> NormAlphabet] : n \in 0..MaxTagLen}

InitNorm == InitWith({<<>>}, NormNames)

\* A call normalizeTag(normName).
Normalize ==
  /\ normResult = <<>>
  /\ normResult' = <<normalizeTag(normName)>>
  /\ UNCHANGED <<pc, crash, serving, exportedTagsList, exportedTags, labelNames,
                 gauges, cycles, sync, collect, ret, written, loop, normName>>

\* A call normalizeTag(r) on the string r the first call returned.
NormalizeAgain ==
  /\ Len(normResult) = 1
  /\ normResult' = Append(normResult, normalizeTag(normResult[1]))
  /\ UNCHANGED <<pc, crash, serving, exportedTagsList, exportedTags, labelNames,
                 gauges, cycles, sync, collect, ret, written, loop, normName>>

NextNorm == Normalize \/ NormalizeAgain

SpecNorm == InitNorm /\ [][NextNorm]_vars

\* ----------------------------------------------------------------- claims

TaskFetched(i) == task[i].attr # <<>>

EnrichmentFailed == \E i \in DOMAIN task : task[i].err # NoErr

AllTasksDone == \A i \in DOMAIN task : task[i].pc = "done"

SyncSucceeded == ret.state = "returned" /\ ret.err = NoErr

\* C1: when the enrichment of some queues of a cycle fails and every task is
\* done, QueuesMetrics ends by returning a non-nil error and a nil slice, and
\* Sync writes no gauge value in that cycle.
C1_FailedEnrichmentReturnsError ==
  (EnrichmentFailed /\ AllTasksDone /\ ret.state # "running")
    => /\ ret.state = "returned"
       /\ ret.err # NoErr
       /\ ret.isNil
       /\ written = {}

\* C2: a collection failure never takes the endpoint down: once it serves, it
\* serves after every step, whatever a refresh cycle meets.
C2_EndpointStaysUp == [][serving => serving']_vars

\* A step in which Sync returns an error.
SyncReturnedErrStep ==
  /\ ret'.state = "returned"
  /\ ret'.err # NoErr
  /\ cycles' # cycles \/ ret.state = "running"

\* C3: a Sync that returns an error leaves every series of the four gauges
\* as it was, and the series change only in a step in which a Sync succeeds.
C3_FailedSyncKeepsGauges ==
  [][/\ SyncReturnedErrStep => gauges' = gauges
     /\ gauges' # gauges => (ret.state = "running" /\ ret'.state = "returned"
                             /\ ret'.err = NoErr)]_vars

C3_Witness ==
  /\ pc = "serving"
  /\ cycles = 2
  /\ ret.state = "returned"
  /\ ret.err # NoErr
  /\ queueMessagesGauge # NoSeries

\* C4: after a successful Sync each of the four gauges exposes exactly the
\* label sets that cycle wrote, none left from an earlier cycle.
C4_SyncReplacesSeries ==
  SyncSucceeded
    => /\ DOMAIN queueMessagesGauge = written
       /\ DOMAIN queueAgeOfOldestMessageGauge = written
       /\ DOMAIN queueMessagesInFlightGauge = written
       /\ DOMAIN queueMessageTotalsGauge = written

\* C5: a statistics answer without error and without a data point (the slice
\* nil or empty) makes the queue's age 0: the task goes on with a snapshot of
\* age 0 and no error.
C5_NoDatapointIsAgeZero ==
  \A i \in DOMAIN task :
    (/\ task[i].stats # <<>>
     /\ ~task[i].stats[1].err
     /\ task[i].stats[1].Datapoints = <<>>)
      => /\ task[i].pc \in {"sendRes", "done"}
         /\ task[i].err = NoErr
         /\ task[i].info # <<>>
         /\ task[i].info[1].AgeOfOldestMessageSeconds = 0

AttrPresentAndParses(attrs, k) == k \in DOMAIN attrs /\ ParseInt(attrs[k]).ok

\* C6: an attribute answer that lacks the depth or the in-flight attribute, or
\* carries one that is no integer, makes fetchQueuesMetrics return an error and
\* no snapshot.
C6_BadAttributeIsError ==
  \A i \in DOMAIN task :
    (/\ TaskFetched(i)
     /\ ~task[i].attr[1].err
     /\ \/ ~AttrPresentAndParses(task[i].attr[1].Attributes, AttrDepth)
        \/ ~AttrPresentAndParses(task[i].attr[1].Attributes, AttrNotVisible))
      => /\ task[i].pc \in {"sendErr", "sendRes", "done"}
         /\ task[i].err # NoErr
         /\ task[i].info = <<>>

\* The task fetched a depth that is a number.
DepthFetched(i) ==
  /\ TaskFetched(i)
  /\ ~task[i].attr[1].err
  /\ AttrPresentAndParses(task[i].attr[1].Attributes, AttrDepth)

Depth(i) == ParseInt(task[i].attr[1].Attributes[AttrDepth]).val

StatsCalls(i) == Len(task[i].stats)

DepthZeroHasAgeZero(i) ==
  (DepthFetched(i) /\ Depth(i) = 0 /\ task[i].info # <<>>)
    => task[i].info[1].AgeOfOldestMessageSeconds = 0

\* C7 as stated, for every task whose fetchQueuesMetrics returned: the age
\* lookup is made once for a queue exactly when its fetched depth is greater
\* than 0, and never otherwise; with depth 0 the snapshot's age is 0.
C7_LookupIffDepthPositive ==
  \A i \in DOMAIN task :
    (TaskFetched(i) /\ task[i].pc # "panicked")
      => /\ StatsCalls(i) = (IF DepthFetched(i) /\ Depth(i) > 0 THEN 1 ELSE 0)
         /\ DepthZeroHasAgeZero(i)

\* C7, amended: the age lookup is made once for a queue exactly when the
\* attribute call succeeded, both attributes are there and parse, and the
\* depth is greater than 0, and never otherwise; with depth 0 the snapshot's
\* age is 0.
C7_LookupIffParsedAndDepthPositive ==
  \A i \in DOMAIN task :
    TaskFetched(i)
      => /\ StatsCalls(i) =
              (IF /\ DepthFetched(i)
                  /\ AttrPresentAndParses(task[i].attr[1].Attributes, AttrNotVisible)
                  /\ Depth(i) > 0
               THEN 1 ELSE 0)
         /\ DepthZeroHasAgeZero(i)

C7_Witness ==
  \E i, j \in DOMAIN task :
    /\ DepthFetched(i) /\ Depth(i) = 0 /\ StatsCalls(i) = 0
    /\ task[i].info # <<>> /\ task[i].info[1].AgeOfOldestMessageSeconds = 0
    /\ DepthFetched(j) /\ Depth(j) > 0 /\ StatsCalls(j) = 1
    /\ task[j].info # <<>>

\* C8: after a successful Sync, under every label set written in that cycle
\* the total gauge is the depth gauge plus the in-flight gauge.
C8_TotalIsDepthPlusInFlight ==
  SyncSucceeded
    => \A l \in written :
         queueMessageTotalsGauge[l] = queueMessagesGauge[l] + queueMessagesInFlightGauge[l]

C8_Witness ==
  /\ SyncSucceeded
  /\ \E l \in written : queueMessageTotalsGauge[l] = 3 /\ queueMessagesGauge[l] = 2

AllSeries ==
  DOMAIN queueMessagesGauge \cup DOMAIN queueAgeOfOldestMessageGauge
    \cup DOMAIN queueMessagesInFlightGauge \cup DOMAIN queueMessageTotalsGauge

StartupLabelNames ==
  {QueueNameLabel} \cup {normalizeTag(exportedTagsList[j]) : j \in 1..Len(exportedTagsList)}

\* C9: every series ever published carries exactly the label names fixed at
\* startup, queue_name and one normalized name per configured tag; and a queue
\* of a successful cycle is published under its name and, for every configured
\* tag, the tag's value, the empty string when the queue lacks the tag.
C9_LabelNamesFixed ==
  /\ \A l \in AllSeries :
       /\ DOMAIN l = StartupLabelNames
       /\ Cardinality(DOMAIN l) = 1 + Len(exportedTagsList)
  /\ SyncSucceeded =>
       \A k \in 1..Len(results) :
         \E l \in written :
           /\ l[QueueNameLabel] = results[k][1].QueueName
           /\ \A j \in 1..Len(exportedTagsList) :
                l[normalizeTag(exportedTagsList[j])] =
                  (IF exportedTagsList[j] \in DOMAIN results[k][1].Tags
                   THEN results[k][1].Tags[exportedTagsList[j]]
                   ELSE <<>>)

C9_Witness ==
  /\ SyncSucceeded
  /\ exportedTagsList = <<TagOwner>>
  /\ \E l, m \in written :
       /\ l[QueueNameLabel] # m[QueueNameLabel]
       /\ l[normalizeTag(TagOwner)] = <<>>
       /\ m[normalizeTag(TagOwner)] = <<"x">>

IsLabelChar(c) == c \in LowerLetters \cup Digits \cup {"_"}

AsciiLetterOrDigit(c) == c \in LowerLetters \cup UpperLetters \cup Digits

\* The ASCII lowercase of an ASCII letter or digit.
AsciiLower(c) ==
  CASE c = "A" -> "a" [] c = "E" -> "e" [] c = "K" -> "k" [] c = "O" -> "o"
    [] c = "T" -> "t" [] OTHER -> c

\* The Unicode lowercase, where it differs from the ASCII one.
UnicodeLower(c) ==
  CASE c = "U+212A" -> "k" [] c = "U+0130" -> "i" [] c = "U+00C9" -> "U+00E9"
    [] OTHER -> AsciiLower(c)

\* out is src with every maximal run of characters that are not letters or
\* digits replaced by one underscore, src's other characters kept.
RunsCollapsed(src, out) ==
  LET kept == {i \in 1..Len(src) :
                 AsciiLetterOrDigit(src[i]) \/ i = 1 \/ AsciiLetterOrDigit(src[i - 1])}
      rank(i) == Cardinality({k \in kept : k <= i})
  IN  /\ Len(out) = Cardinality(kept)
      /\ \A i \in kept :
           out[rank(i)] = IF AsciiLetterOrDigit(src[i]) THEN src[i] ELSE "_"

\* C10 as stated: normalizeTag returns only lowercase ASCII letters, digits and
\* underscores: the name with every maximal run of characters of the name that
\* are not ASCII letters or digits replaced by one underscore and every ASCII
\* letter lowercased.
C10_NormalizeCollapsesInputRuns ==
  normResult # <<>>
    => /\ \A i \in 1..Len(normResult[1]) : IsLabelChar(normResult[1][i])
       /\ RunsCollapsed([i \in 1..Len(normName) |-> AsciiLower(normName[i])],
                        normResult[1])

\* C10, amended: normalizeTag returns only lowercase ASCII letters, digits and
\* underscores: the Unicode lowercase of the name, with every maximal run of
\* its characters that are not ASCII letters or digits replaced by one
\* underscore (so a character whose lowercase is an ASCII letter, as the
\* Kelvin sign's is k, gives that letter).
C10_NormalizeCollapsesLoweredRuns ==
  normResult # <<>>
    => /\ \A i \in 1..Len(normResult[1]) : IsLabelChar(normResult[1][i])
       /\ RunsCollapsed([i \in 1..Len(normName) |-> UnicodeLower(normName[i])],
                        normResult[1])

C10_Witness ==
  /\ normName = <<"T", ".", "U+00E9">>
  /\ normResult = <<<<"t", "_">>>>

\* C11: normalizeTag is idempotent: applied to its own result it returns that
\* result unchanged, so an already normalized string, underscores included,
\* is a fixed point.
C11_NormalizeIdempotent ==
  Len(normResult) = 2 => normResult[2] = normResult[1]

\* "T._" became "t_", which holds an underscore, and was normalized again.
C11_Witness ==
  /\ normName = <<"T", ".", "_">>
  /\ Len(normResult) = 2
  /\ normResult[1] = <<"t", "_">>

\* The tasks that have written their result entry, and those that have written
\* an error entry.
TasksPastResult == {i \in DOMAIN task : task[i].pc = "done"}

TasksPastError ==
  {i \in DOMAIN task : task[i].err # NoErr /\ task[i].pc \in {"sendRes", "done"}}

\* The entries of channel buffer ch are, one for one, the values val[i] of the
\* tasks in writers.
WrittenOnceEach(ch, writers, val(_)) ==
  /\ Len(ch) = Cardinality(writers)
  /\ \E f \in [1..Len(ch) -> writers] :
       /\ \A j, k \in 1..Len(ch) : j # k => f[j] # f[k]
       /\ \A k \in 1..Len(ch) : ch[k] = val(f[k])

TaskInfo(i) == task[i].info

TaskErr(i) == task[i].err

\* QueuesMetrics has read its channels or has returned.
QueuesMetricsPastJoin == ret.state = "returned" \/ crash = "nil dereference"

\* C12: in one QueuesMetrics call every task writes one result entry, and one
\* error entry exactly when its enrichment failed, never more; QueuesMetrics
\* reads the channels and returns only when every launched task has signalled
\* completion, also when a sibling task has failed.
C12_OneEntryPerTaskAndJoin ==
  /\ WrittenOnceEach(results, TasksPastResult, TaskInfo)
  /\ WrittenOnceEach(errors, TasksPastError, TaskErr)
  /\ wg = Cardinality(DOMAIN task \ TasksPastResult)
  /\ QueuesMetricsPastJoin => AllTasksDone /\ wg = 0

\* Of two tasks one failed; QueuesMetrics went past the join only after both
\* had written their result.
C12_Witness ==
  /\ QueuesMetricsPastJoin
  /\ Len(task) = 2
  /\ Len(results) = 2
  /\ Len(errors) = 1

C14_ReturnsFirstWrittenError ==
  (EnrichmentFailed /\ AllTasksDone /\ ret.state # "running")
    => /\ ret.state = "returned"
       /\ errors # <<>>
       /\ ret.err = Head(errors)
       /\ \E i \in DOMAIN task : task[i].err = ret.err

\* ListQueues and every ListQueueTags call of the cycle succeeded.
DiscoverySucceeded ==
  ~queueNames.err /\ \A k \in 1..Len(tagCalls) : ~tagCalls[k].err

\* The snapshot of the i-th discovered queue, from what the remote calls made
\* for that queue answered.
ExpectedSnapshot(i) ==
  LET attrs == task[i].attr[1].Attributes
      age == IF task[i].stats = <<>> \/ task[i].stats[1].isNil THEN 0
             ELSE Int64OfTenths(task[i].stats[1].Datapoints[1].MaximumTenths)
  IN  [QueueName |-> queueNameFromUrl(queueNames.QueueUrls[i]),
       Tags |-> queues[i].Tags,
       Messages |-> ParseInt(attrs[AttrDepth]).val,
       MessagesInFlight |-> ParseInt(attrs[AttrNotVisible]).val,
       AgeOfOldestMessageSeconds |-> age,
       MessagesTotal |-> 0]

\* C15: when discovery and every enrichment of a cycle succeeded and
\* QueuesMetrics has ended, it has returned a nil error and a slice that holds
\* exactly one snapshot per discovered queue, each with the name, tags, depth,
\* in-flight count and age of its own queue.
C15_OneSnapshotPerQueue ==
  (/\ ret.state \notin {"none", "running"}
   /\ DiscoverySucceeded
   /\ AllTasksDone
   /\ ~EnrichmentFailed)
    => /\ ret.state = "returned"
       /\ ret.err = NoErr
       /\ ~ret.isNil
       /\ Len(ret.metrics) = Len(queueNames.QueueUrls)
       /\ \E f \in [DOMAIN task -> 1..Len(ret.metrics)] :
            /\ \A i, j \in DOMAIN task : i # j => f[i] # f[j]
            /\ \A i \in DOMAIN task : ret.metrics[f[i]] = ExpectedSnapshot(i)

\* Two queues were enriched, queue b finished first, and the two snapshots
\* differ in depth.
C15_Witness ==
  /\ SyncSucceeded
  /\ DiscoverySucceeded
  /\ Len(ret.metrics) = 2
  /\ ret.metrics[1].QueueName = <<"q", "b">>
  /\ ret.metrics[2].QueueName = <<"q", "a">>
  /\ ret.metrics[1].Messages = 2
  /\ ret.metrics[2].Messages = 0

\* The URLs of the ListQueueTags calls of the cycle, in call order.
TagCallUrls == [k \in 1..Len(tagCalls) |-> tagCalls[k].url]

\* A QueuesMetrics call has run listQueues under the registered tags.
DiscoveryRan == pc # "NewExporter" /\ ret.state # "none"

\* Without exported tags no ListQueueTags call is made and every queue's tag
\* mapping is empty.
NoTagsRequestedNoCalls ==
  (DiscoveryRan /\ Len(exportedTagsList) = 0)
    => /\ tagCalls = <<>>
       /\ \A i \in DOMAIN queues : queues[i].Tags = NoTags
       /\ \A k \in 1..Len(ret.metrics) : ret.metrics[k].Tags = NoTags

\* C16 as stated: with exported tags ListQueueTags is called exactly once for
\* every queue ListQueues returned, without them for none.
C16_TagCallPerDiscoveredQueue ==
  /\ NoTagsRequestedNoCalls
  /\ (DiscoveryRan /\ Len(exportedTagsList) > 0 /\ ~queueNames.err)
       => TagCallUrls = queueNames.QueueUrls

\* C16: tags are requested exactly when some tag is exported.  Without
\* exported tags no ListQueueTags call is made and every tag mapping is empty.
\* With them the calls go through the queues ListQueues returned, in order and
\* once each, and stop at the first call that fails: every queue when no call
\* fails, the queues up to the failing one otherwise.
C16_TagCallPerQueueUntilFailure ==
  /\ NoTagsRequestedNoCalls
  /\ (DiscoveryRan /\ Len(exportedTagsList) > 0 /\ ~queueNames.err)
       => /\ Len(tagCalls) <= Len(queueNames.QueueUrls)
          /\ \A k \in 1..Len(tagCalls) :
               /\ tagCalls[k].url = queueNames.QueueUrls[k]
               /\ tagCalls[k].err => k = Len(tagCalls)
          /\ DiscoverySucceeded => Len(tagCalls) = Len(queueNames.QueueUrls)
  /\ (DiscoveryRan /\ queueNames.err) => tagCalls = <<>>

\* With the tag Owner exported ListQueues returned two queues and ListQueueTags
\* was called for both.
C16_Witness ==
  /\ DiscoveryRan
  /\ exportedTagsList = <<TagOwner>>
  /\ Len(queueNames.QueueUrls) = 2
  /\ TagCallUrls = <<UrlA, UrlB>>
  /\ DiscoverySucceeded

\* ListQueues failed, or one of the ListQueueTags calls did.
DiscoveryFailed ==
  queueNames.err \/ \E k \in 1..Len(tagCalls) : tagCalls[k].err

\* The error the failed remote call of discovery gave.
DiscoveryError ==
  IF queueNames.err THEN Err("ListQueues", <<>>)
  ELSE Err("ListQueueTags",
           tagCalls[CHOOSE k \in 1..Len(tagCalls) : tagCalls[k].err].url)

\* C17: when ListQueues fails, or ListQueueTags fails for any one queue,
\* QueuesMetrics returns that error and a nil slice, listQueues having returned
\* no queue list; no goroutine is launched and no GetQueueAttributes or
\* GetMetricStatistics call is made in that cycle.
C17_FailedDiscoveryLaunchesNothing ==
  (DiscoveryRan /\ DiscoveryFailed)
    => /\ ret.state = "returned"
       /\ ret.err = DiscoveryError
       /\ ret.isNil
       /\ ret.metrics = <<>>
       /\ queues = <<>>
       /\ task = <<>>
       /\ results = <<>>
       /\ errors = <<>>
       /\ sync = "idle"
       /\ written = {}

\* The tags of queue a were fetched, the call for queue b failed, and the
\* ticker loop's cycle ended with that error.
C17_Witness ==
  /\ pc = "serving"
  /\ Len(tagCalls) = 2
  /\ ~tagCalls[1].err
  /\ tagCalls[2].err
  /\ ret.err = Err("ListQueueTags", UrlB)

\* A QueuesMetrics call is between the launch and the join, the process alive.
InFanout == sync = "fanout" /\ pc # "crashed"

\* C18: no goroutine ever blocks on its channel writes: both channels have the
\* capacity of the number of queues and never hold more entries, so a task
\* about to send finds room; once every remote call has returned some step of
\* the call can always be taken, and with every task done wg.Wait() returns.
\* With no queue QueuesMetrics goes past the join at once and returns an empty,
\* non-nil slice and no error.
C18_NoTaskBlocksAndJoinReleased ==
  /\ Len(results) <= Len(task) /\ Len(errors) <= Len(task)
  /\ InFanout =>
       /\ \A i \in DOMAIN task :
            /\ task[i].pc = "sendErr" => ENABLED TaskSendErr(i)
            /\ task[i].pc = "sendRes" => ENABLED TaskSendRes(i)
       /\ AllTasksDone => WaitReturns /\ ENABLED Join
  /\ (DiscoveryRan /\ DiscoverySucceeded /\ queueNames.QueueUrls = <<>>)
       => IF ret.state = "running"
          THEN ENABLED Join
          ELSE /\ ret.state = "returned"
               /\ ret.err = NoErr
               /\ ~ret.isNil
               /\ ret.metrics = <<>>

\* Both tasks of a cycle failed: each channel holds two entries, its capacity,
\* and the join is about to be passed.
C18_Witness ==
  /\ InFanout
  /\ Len(task) = 2
  /\ Len(errors) = 2
  /\ Len(results) = 2

\* C19: for every configured list of tag names NewExporter registers the
\* gauges, and the label names it registers them with are pairwise distinct,
\* non-empty, and, for the tags, different from queue_name.
C19_LabelNamesDistinct ==
  pc # "NewExporter"
    => /\ crash # "MustRegister"
       /\ \A j, k \in 1..Len(labelNames) : j # k => labelNames[j] # labelNames[k]
       /\ \A k \in 1..Len(labelNames) : labelNames[k] # <<>>
       /\ \A k \in 2..Len(labelNames) : labelNames[k] # QueueNameLabel

====
